---- MODULE Spec2Model ----
(***************************************************************************)
(* Model of the Threads Copilot bot's usage quota (services/usage.py) and  *)
(* per-profile context window (database/models.py), over the two tables    *)
(* "users" and "threads_profiles".                                         *)
(*                                                                         *)
(* Spec        : every call runs to completion before the next one starts  *)
(*               (no overlapping calls).                                   *)
(* SpecRace    : check_and_track_usage calls of several handlers overlap;  *)
(*               a call is split at its await points (SELECT, INSERT +     *)
(*               commit, UPDATE + commit), each handler in its own session.*)
(* SpecStart   : the first contacts (/start) of several handlers overlap.  *)
(* SpecFault   : calls run one at a time, and a commit may raise.          *)
(* SpecCtx     : the context window of one chat slot, one request at a     *)
(*               time.                                                     *)
(* SpecCtxRace : saves and clears of one chat slot's history overlap.      *)
(* SpecText    : whole text requests (quota check, load, model call,       *)
(*               save) of several handlers overlap.                        *)
(* SpecChats   : the create, select and delete handlers of the chat slots  *)
(*               overlap.                                                  *)
(* SpecStored  : the context helpers applied to a stored context_json of   *)
(*               every kind, well-formed or corrupt.                       *)
(* SpecEdit    : the edit of a slot's style overlaps with saves to it.     *)
(* SpecFree    : overlapping quota checks of the non-privileged users.     *)
(* SpecTextAny : SpecText, started with or without a chat slot.            *)
(* SpecTextSlots : text requests overlap with the deletion and creation of *)
(*               chat slots.                                               *)
(***************************************************************************)
EXTENDS Integers, Sequences, FiniteSets, TLC

VARIABLES
    today,      \* the clock: what datetime.date.today() returns
    settings,   \* config.settings: the configured DAILY_FREE_LIMIT
    fsm,        \* the dispatcher's FSM storage: per identity, the dialog state
    users,      \* table "users": a set of rows
    profiles,   \* table "threads_profiles": a set of rows
    procs,      \* the handlers in flight: position and session-local objects
    ret,        \* the most recent completed call and what it returned
    admitted,   \* history: per identity, calls that returned True on the clock's day
    denied,     \* history: per identity, whether a call has ever returned False
    appended,   \* history: per profile, the exchanges appended since it was last empty
    updates     \* history: the requests the bounded specifications have started

vars == <<today, settings, fsm, users, profiles, procs, ret, admitted, denied, appended,
          updates>>

(***************************************************************************)
(* Bounds of the model.                                                    *)
(***************************************************************************)
MaxDay == 1          \* the clock runs over the dates 0..MaxDay
MaxRequests == 6     \* cap of the uncapped (pro / admin) counters
MaxRaceLimit == 2    \* SpecRace: DAILY_FREE_LIMIT is configured in 0..MaxRaceLimit
MaxRaceRequests == 3 \* SpecRace: cap of the uncapped (pro / admin) counters
NumTexts == 2        \* the message texts a user sends are 1..NumTexts
MaxAppends == 11     \* SpecCtx: exchanges appended to an empty history
MaxUpdates == 2      \* SpecCtxRace: text requests whose reply arrives
MaxChatOps == 5      \* SpecChats: chat-slot callbacks and dialog messages handled
NumProcs == 2        \* handlers that may be in flight at once

(***************************************************************************)
(* Program constants.                                                      *)
(***************************************************************************)
DAILY_FREE_LIMIT == 5
MAX_CONTEXT_MESSAGES == 10
MAX_CHATS == 5

\* The telegram identities that write to the bot: 1 is the configured admin,
\* 2 is an ordinary user.
Ids == {1, 2}
Days == 0..MaxDay
Procs == 1..NumProcs

\* settings.admin_ids_list: ADMIN_IDS parsed; identity 1 is the configured admin.
admin_ids_list == {1}

\* The values DAILY_FREE_LIMIT is configured with: the default, and the
\* smallest ones an environment may set.
LimitValues == {0, 1, DAILY_FREE_LIMIT}

\* The values it is configured with where calls overlap.
RaceLimitValues == 0..MaxRaceLimit

None == 0

\* What a call left behind: its return value (allowed; is_pro, remaining) and
\* whether get_or_create_user logged "Registered new user" in it.
NoRet ==
    [op |-> "none", tid |-> None, created |-> FALSE,
     allowed |-> FALSE, is_pro |-> FALSE, remaining |-> 0, reply |-> "none"]

(***************************************************************************)
(* Table "users".                                                          *)
(***************************************************************************)
\* User(telegram_id=..., is_pro=False, requests_today=0, last_request_date=today);
\* id is the autoincrement primary key, active_profile_id is nullable.
NewUser(tbl, telegram_id, date) ==
    [id |-> Cardinality(tbl) + 1,
     telegram_id |-> telegram_id,
     is_pro |-> FALSE,
     requests_today |-> 0,
     last_request_date |-> date,
     active_profile_id |-> None]

\* select(User).where(User.telegram_id == telegram_id)
SelectUser(tbl, telegram_id) == {r \in tbl : r.telegram_id = telegram_id}

HasUser(tbl, telegram_id) == SelectUser(tbl, telegram_id) # {}

\* result.scalar_one_or_none() when a row was found
UserOf(tbl, telegram_id) == CHOOSE r \in tbl : r.telegram_id = telegram_id

\* A slip of the schema: telegram_id without unique=True.
UniqueViolated_Off(tbl, row) == FALSE

\* telegram_id is declared unique=True: the INSERT of a second row with the
\* same telegram_id is rejected.
UniqueViolated(tbl, row) == \E r \in tbl : r.telegram_id = row.telegram_id

\* session.add(user); session.commit()
InsertUser(tbl, row) == tbl \cup {row}

UserColumns == {"is_pro", "requests_today", "last_request_date", "active_profile_id"}

\* The unit of work at commit: UPDATE users SET <the attributes whose value
\* differs from the loaded one> WHERE id = <pk>; the other columns keep what
\* the table holds.
UpdateUser(tbl, loaded, new) ==
    {IF r.id = loaded.id
        THEN [c \in DOMAIN r |->
                 IF c \in UserColumns /\ new[c] # loaded[c] THEN new[c] ELSE r[c]]
        ELSE r : r \in tbl}

(***************************************************************************)
(* Table "threads_profiles" and the context helpers of ThreadsProfile.     *)
(***************************************************************************)
\* The text of the column context_json.  A text json.dumps wrote is a JSON
\* array of entries; "empty" is the empty string, "malformed" a text
\* json.loads rejects, "object" a JSON text that is not an array.
ArrayText(items) == [kind |-> "array", items |-> items]

\* json.dumps(ctx, ensure_ascii=False) of a list of entries
json_dumps(ctx) == ArrayText(ctx)

\* json.loads(text): the list an array text holds, JSONDecodeError for a
\* text that does not parse, and a value that is no list for the rest.
json_loads(text) ==
    IF text.kind = "array"
    THEN [raised |-> FALSE, type |-> "list", items |-> text.items]
    ELSE IF text.kind \in {"malformed", "empty"}
    THEN [raised |-> TRUE, type |-> "none", items |-> <<>>]
    ELSE [raised |-> FALSE, type |-> "dict", items |-> <<>>]

\* ThreadsProfile.get_context: json.loads(self.context_json or "[]"), and
\* [] on JSONDecodeError.
get_context(profile) ==
    LET text == IF profile.context_json.kind = "empty"
                THEN ArrayText(<<>>)
                ELSE profile.context_json
        v == json_loads(text)
    IN IF v.raised
       THEN [raised |-> FALSE, type |-> "list", items |-> <<>>]
       ELSE v

\* {"role": "user", "content": user_msg} and its assistant counterpart
Entry(role, content) == [role |-> role, content |-> content]

\* A slip of the trimming: ctx[:max_entries] keeps the oldest entries.
FirstEntries(ctx, max_entries) == SubSeq(ctx, 1, max_entries)

\* A slip of the trimming: ctx[-(max_entries - 1):] keeps one entry too few.
LastEntries_OneShort(ctx, max_entries) ==
    SubSeq(ctx, Len(ctx) - max_entries + 2, Len(ctx))

\* ctx[-max_entries:]
LastEntries(ctx, max_entries) ==
    SubSeq(ctx, Len(ctx) - max_entries + 1, Len(ctx))

\* A slip of add_to_context: the two entries are appended in the wrong order.
add_to_context_Swapped(profile, user_msg, assistant_msg) ==
    LET ctx == Append(Append(get_context(profile).items,
                             Entry("assistant", assistant_msg)),
                      Entry("user", user_msg))
        max_entries == MAX_CONTEXT_MESSAGES * 2
    IN [profile EXCEPT !.context_json =
           json_dumps(IF Len(ctx) > max_entries
                      THEN LastEntries(ctx, max_entries)
                      ELSE ctx)]

\* A slip of add_to_context: the history is never trimmed.
add_to_context_NoTrim(profile, user_msg, assistant_msg) ==
    [profile EXCEPT !.context_json =
        json_dumps(Append(Append(get_context(profile).items,
                                 Entry("user", user_msg)),
                          Entry("assistant", assistant_msg)))]

\* ThreadsProfile.add_to_context on a profile whose get_context is a list.
add_to_context(profile, user_msg, assistant_msg) ==
    LET ctx == Append(Append(get_context(profile).items,
                             Entry("user", user_msg)),
                      Entry("assistant", assistant_msg))
        max_entries == MAX_CONTEXT_MESSAGES * 2
    IN [profile EXCEPT !.context_json =
           json_dumps(IF Len(ctx) > max_entries
                      THEN LastEntries(ctx, max_entries)
                      ELSE ctx)]

\* A slip of clear_context: the history is emptied through the list that
\* get_context returns, so a stored value that is no list stays as it is.
clear_context_ThroughList(profile) ==
    IF get_context(profile).type = "list"
    THEN [profile EXCEPT !.context_json = json_dumps(<<>>)]
    ELSE profile

\* ThreadsProfile.clear_context
clear_context(profile) == [profile EXCEPT !.context_json = ArrayText(<<>>)]

\* The id the database gives the next row of a table: the column is an
\* INTEGER PRIMARY KEY of SQLite (config.py 32), which takes the largest id
\* in the table plus one, so the id of a deleted last row is given again.
NextRowId(tbl) ==
    IF tbl = {}
    THEN 1
    ELSE (CHOOSE m \in {r.id : r \in tbl} : \A r \in tbl : r.id <= m) + 1

\* ThreadsProfile(user_id=..., profile_name=..., system_prompt=...); id is
\* the primary key, context_json defaults to "[]".
NewProfile(tbl, user_id, style) ==
    [id |-> NextRowId(tbl),
     user_id |-> user_id,
     system_prompt |-> style,
     context_json |-> ArrayText(<<>>)]

\* select(ThreadsProfile).where(ThreadsProfile.id == profile_id)
HasProfile(tbl, profile_id) == \E r \in tbl : r.id = profile_id

ProfileOf(tbl, profile_id) == CHOOSE r \in tbl : r.id = profile_id

ProfileColumns == {"system_prompt", "context_json"}

\* The commit of a session that changed a loaded profile: UPDATE
\* threads_profiles SET <the changed attributes> WHERE id = <pk>.
UpdateProfile(tbl, loaded, new) ==
    {IF r.id = loaded.id
        THEN [c \in DOMAIN r |->
                 IF c \in ProfileColumns /\ new[c] # loaded[c] THEN new[c] ELSE r[c]]
        ELSE r : r \in tbl}

\* The texts of the messages users send; the reply generate_thread gives to
\* the topic t is the text Reply(t), which is no topic.
Texts == 1..NumTexts

Reply(t) == t + NumTexts

Exchange(t) == [user_msg |-> t, assistant_msg |-> Reply(t)]

(***************************************************************************)
(* handlers/user.py: the handlers that write a profile's history, each run *)
(* without interruption.                                                   *)
(***************************************************************************)
\* fsm_chat_style (user.py 324-336): the new chat slot is inserted and made
\* the user's active one in one commit.  The tables afterwards.
ChatCreated(tblU, tblP, telegram_id, style, date) ==
    LET tbl == IF HasUser(tblU, telegram_id)
               THEN tblU
               ELSE tblU \cup {NewUser(tblU, telegram_id, date)}
        user == UserOf(tbl, telegram_id)
        profile == NewProfile(tblP, user.id, style)
    IN [users |-> UpdateUser(tbl, user, [user EXCEPT !.active_profile_id = profile.id]),
        profiles |-> tblP \cup {profile}]

\* handle_text, "Save to context" (user.py 577-584): the profile the request
\* loaded is read again by id, the exchange is appended and committed.
handle_text_save(profile_id, topic, thread_text) ==
    /\ HasProfile(profiles, profile_id)
    /\ Len(appended[profile_id]) < MaxAppends
    /\ get_context(ProfileOf(profiles, profile_id)).type = "list"
    /\ LET profile == ProfileOf(profiles, profile_id)
       IN profiles' = UpdateProfile(profiles, profile,
                                    add_to_context(profile, topic, thread_text))
    /\ appended' = [appended EXCEPT ![profile_id] =
                        Append(@, [user_msg |-> topic, assistant_msg |-> thread_text])]
    /\ ret' = [NoRet EXCEPT !.op = "add_to_context", !.tid = profile_id]
    /\ UNCHANGED <<today, settings, fsm, users, procs, admitted, denied, updates>>

\* cmd_clear (user.py 169-190) for an identity that has a row: the active
\* profile, when there is one, gets an empty history.
cmd_clear(telegram_id) ==
    /\ HasUser(users, telegram_id)
    /\ LET user == UserOf(users, telegram_id)
       IN IF user.active_profile_id # None /\ HasProfile(profiles, user.active_profile_id)
          THEN LET profile == ProfileOf(profiles, user.active_profile_id)
               IN /\ profiles' = UpdateProfile(profiles, profile, clear_context(profile))
                  /\ appended' = [appended EXCEPT ![profile.id] = <<>>]
          ELSE UNCHANGED <<profiles, appended>>
    /\ ret' = [NoRet EXCEPT !.op = "clear_context", !.tid = telegram_id]
    /\ UNCHANGED <<today, settings, fsm, users, procs, admitted, denied, updates>>

(***************************************************************************)
(* services/usage.py                                                       *)
(***************************************************************************)
\* Variants of TrackUsage, each with one slip a change of check_and_track_usage
\* could introduce:
\*   "inclusive"  the free-tier test is requests_today <= limit
\*   "noreset"    the new-day reset of the counter is left out
\*   "denycommit" the denial path commits the session too
\*   "procapped"  the free-tier test runs before the pro test
\*   "adminreset" the admin path applies the new-day reset before counting
TrackUsageVariant(user, date, telegram_id, limit, slip) ==
    LET stale == user.last_request_date < date
        reset == [user EXCEPT !.requests_today = 0, !.last_request_date = date]
    IN IF telegram_id \in admin_ids_list
       THEN [allowed |-> TRUE,
             user |-> IF slip = "adminreset" /\ stale
                      THEN [reset EXCEPT !.requests_today = 1]
                      ELSE [user EXCEPT !.requests_today = @ + 1,
                                        !.last_request_date = date],
             commit |-> TRUE]
       ELSE LET u1 == IF stale
                      THEN IF slip = "noreset"
                           THEN [user EXCEPT !.last_request_date = date]
                           ELSE reset
                      ELSE user
                under == IF slip = "inclusive"
                         THEN u1.requests_today <= limit
                         ELSE u1.requests_today < limit
                pro == IF slip = "procapped" THEN u1.is_pro /\ under ELSE u1.is_pro
            IN IF pro \/ under
               THEN [allowed |-> TRUE,
                     user |-> [u1 EXCEPT !.requests_today = @ + 1],
                     commit |-> TRUE]
               ELSE [allowed |-> FALSE, user |-> u1, commit |-> slip = "denycommit"]

TrackUsage_Inclusive(user, date, telegram_id, limit) ==
    TrackUsageVariant(user, date, telegram_id, limit, "inclusive")

TrackUsage_NoReset(user, date, telegram_id, limit) ==
    TrackUsageVariant(user, date, telegram_id, limit, "noreset")

TrackUsage_DenyCommit(user, date, telegram_id, limit) ==
    TrackUsageVariant(user, date, telegram_id, limit, "denycommit")

TrackUsage_ProCapped(user, date, telegram_id, limit) ==
    TrackUsageVariant(user, date, telegram_id, limit, "procapped")

TrackUsage_AdminReset(user, date, telegram_id, limit) ==
    TrackUsageVariant(user, date, telegram_id, limit, "adminreset")

\* A slip of check_and_track_usage: an admitted call returns True without
\* counting the request.
TrackUsage_NoCount(user, date, telegram_id, limit) ==
    LET d == TrackUsageVariant(user, date, telegram_id, limit, "none")
    IN IF d.allowed
       THEN [d EXCEPT !.user = [@ EXCEPT !.requests_today = @ - 1]]
       ELSE d

\* check_and_track_usage after get_or_create_user returned `user`: the
\* decision, the session's copy of the row, and whether commit is called.
TrackUsage(user, date, telegram_id, limit) ==
    IF telegram_id \in admin_ids_list
    THEN [allowed |-> TRUE,
          user |-> [user EXCEPT !.requests_today = @ + 1,
                                !.last_request_date = date],
          commit |-> TRUE]
    ELSE LET u1 == IF user.last_request_date < date
                   THEN [user EXCEPT !.requests_today = 0,
                                     !.last_request_date = date]
                   ELSE user
         IN IF u1.is_pro
            THEN [allowed |-> TRUE,
                  user |-> [u1 EXCEPT !.requests_today = @ + 1],
                  commit |-> TRUE]
            ELSE IF u1.requests_today < limit
            THEN [allowed |-> TRUE,
                  user |-> [u1 EXCEPT !.requests_today = @ + 1],
                  commit |-> TRUE]
            ELSE [allowed |-> FALSE, user |-> u1, commit |-> FALSE]

Max(a, b) == IF a >= b THEN a ELSE b

\* A slip of get_remaining_requests: the counter of an earlier date is
\* taken as used today.
RemainingRequests_StaleCounted(user, date, limit) ==
    IF user.is_pro
    THEN [is_pro |-> TRUE, remaining |-> -1]
    ELSE [is_pro |-> FALSE, remaining |-> Max(limit - user.requests_today, 0)]

\* get_remaining_requests after get_or_create_user returned `user`.
RemainingRequests(user, date, limit) ==
    LET used == IF user.last_request_date >= date THEN user.requests_today ELSE 0
    IN IF user.is_pro
       THEN [is_pro |-> TRUE, remaining |-> -1]
       ELSE [is_pro |-> FALSE, remaining |-> Max(limit - used, 0)]

\* A slip of get_or_create_user: the lookup applies the new-day reset to
\* the row it finds.
GetOrCreateUser_Reset(tbl, telegram_id, date) ==
    IF HasUser(tbl, telegram_id)
    THEN LET user == UserOf(tbl, telegram_id)
         IN IF user.last_request_date < date
            THEN UpdateUser(tbl, user, [user EXCEPT !.requests_today = 0,
                                                    !.last_request_date = date])
            ELSE tbl
    ELSE InsertUser(tbl, NewUser(tbl, telegram_id, date))

\* The table after get_or_create_user(session, telegram_id) ran alone.
GetOrCreateUser(tbl, telegram_id, date) ==
    IF HasUser(tbl, telegram_id)
    THEN tbl
    ELSE InsertUser(tbl, NewUser(tbl, telegram_id, date))

\* The counter a call would raise without bound is capped.
CanCount(telegram_id, cap) ==
    IF ~HasUser(users, telegram_id)
    THEN TRUE
    ELSE IF telegram_id \in admin_ids_list \/ UserOf(users, telegram_id).is_pro
    THEN UserOf(users, telegram_id).requests_today < cap
    ELSE TRUE

\* check_and_track_usage(session, telegram_id), run without interruption.
check_and_track_usage(telegram_id) ==
    /\ CanCount(telegram_id, MaxRequests)
    /\ LET tbl == GetOrCreateUser(users, telegram_id, today)
           user == UserOf(tbl, telegram_id)
           d == TrackUsage(user, today, telegram_id, settings.DAILY_FREE_LIMIT)
       IN /\ users' = IF d.commit THEN UpdateUser(tbl, user, d.user) ELSE tbl
          /\ ret' = [NoRet EXCEPT !.op = "check_and_track_usage",
                                  !.tid = telegram_id,
                                  !.created = ~HasUser(users, telegram_id),
                                  !.allowed = d.allowed]
          /\ admitted' = IF d.allowed
                         THEN [admitted EXCEPT ![telegram_id] = @ + 1]
                         ELSE admitted
          /\ denied' = IF d.allowed
                       THEN denied
                       ELSE [denied EXCEPT ![telegram_id] = TRUE]
    /\ UNCHANGED <<today, settings, fsm, profiles, procs, appended, updates>>

\* get_remaining_requests(session, telegram_id), run without interruption.
get_remaining_requests(telegram_id) ==
    /\ LET tbl == GetOrCreateUser(users, telegram_id, today)
           r == RemainingRequests(UserOf(tbl, telegram_id), today,
                                  settings.DAILY_FREE_LIMIT)
       IN /\ users' = tbl
          /\ ret' = [NoRet EXCEPT !.op = "get_remaining_requests",
                                  !.tid = telegram_id,
                                  !.created = ~HasUser(users, telegram_id),
                                  !.is_pro = r.is_pro,
                                  !.remaining = r.remaining]
    /\ UNCHANGED <<today, settings, fsm, profiles, procs, admitted, denied, appended, updates>>

\* A slip of check_and_track_usage: the new-day reset is committed on its
\* own, before the increment is.
CommitUser_ResetFirst(tbl, loaded, new, ok) ==
    IF ok
    THEN UpdateUser(tbl, loaded, new)
    ELSE UpdateUser(tbl, loaded,
                    IF new.last_request_date # loaded.last_request_date
                    THEN [loaded EXCEPT !.requests_today = 0,
                                        !.last_request_date = new.last_request_date]
                    ELSE loaded)

\* usage.py 68 / 79 / 85: the one session.commit() of the call sends the
\* UPDATE of all changed columns in one transaction; when it raises, the
\* session is closed without the transaction (session.py 34-38, user.py 512).
CommitUser(tbl, loaded, new, ok) ==
    IF ok THEN UpdateUser(tbl, loaded, new) ELSE tbl

\* The commits of a call: the INSERT of get_or_create_user (usage.py 39) and
\* the UPDATE of check_and_track_usage (usage.py 68 / 79 / 85).
CommitPoints == {"insert", "update"}

\* check_and_track_usage(session, telegram_id) in which the commit at the
\* given point raises: the exception leaves the call, which returns nothing.
check_and_track_usage_fails(telegram_id, point) ==
    /\ LET tbl == GetOrCreateUser(users, telegram_id, today)
           user == UserOf(tbl, telegram_id)
           d == TrackUsage(user, today, telegram_id, settings.DAILY_FREE_LIMIT)
       IN IF point = "insert"
          THEN /\ ~HasUser(users, telegram_id)
               /\ users' = users
          ELSE /\ d.commit
               /\ users' = CommitUser(tbl, user, d.user, FALSE)
    /\ ret' = [NoRet EXCEPT !.op = "OperationalError", !.tid = telegram_id,
                            !.reply = point]
    /\ UNCHANGED <<today, settings, fsm, profiles, procs, admitted, denied, appended, updates>>

(***************************************************************************)
(* handlers/admin.py                                                       *)
(***************************************************************************)
\* /admin_promote <target>: an admin sets is_pro on an existing, non-pro row.
cmd_admin_promote(sender, target) ==
    /\ sender \in admin_ids_list
    /\ HasUser(users, target)
    /\ ~UserOf(users, target).is_pro
    /\ LET user == UserOf(users, target)
       IN users' = UpdateUser(users, user, [user EXCEPT !.is_pro = TRUE])
    /\ ret' = [NoRet EXCEPT !.op = "cmd_admin_promote", !.tid = target]
    /\ UNCHANGED <<today, settings, fsm, profiles, procs, admitted, denied, appended, updates>>

(***************************************************************************)
(* check_and_track_usage as the event loop runs it: the coroutine of one   *)
(* handler gives way to the others at each await (usage.py 28, 39, 40 and  *)
(* 68 / 79 / 85), and every handler works in a session of its own          *)
(* (handlers/user.py 512), on the objects that session loaded.             *)
(***************************************************************************)
\* The placeholder of a session that holds no User object.
NoUser ==
    [id |-> None, telegram_id |-> None, is_pro |-> FALSE, requests_today |-> 0,
     last_request_date |-> 0, active_profile_id |-> None]

\* The placeholder of a session that holds no ThreadsProfile object.
NoProfile ==
    [id |-> None, user_id |-> None, system_prompt |-> 0,
     context_json |-> ArrayText(<<>>)]

\* A handler that is not running.  pc is the await the coroutine is
\* suspended at, tid the caller, day the date get_or_create_user put in the
\* new row, loaded the User as the session read it, new the User as the
\* code changed it, allowed the value the call is about to return, profile
\* the ThreadsProfile as the session read it, changed the ThreadsProfile as
\* the code changed it, topic the text of the message, handler the handler
\* the coroutine belongs to, reply what generate_thread gave the request,
\* overlap whether another handler of the same identity has been in flight
\* since the request began.
IdleProc ==
    [pc |-> "idle", tid |-> None, day |-> 0, loaded |-> NoUser, new |-> NoUser,
     allowed |-> FALSE, profile |-> NoProfile, changed |-> NoProfile, topic |-> 0,
     handler |-> "none", reply |-> "none", overlap |-> FALSE]

\* The call returns: what the caller sees, and the day's tally.  A call that
\* read an earlier date than the clock's belongs to that earlier day.
Return(p, telegram_id, created, allowed, day) ==
    /\ ret' = [NoRet EXCEPT !.op = "check_and_track_usage",
                            !.tid = telegram_id,
                            !.created = created,
                            !.allowed = allowed]
    /\ admitted' = IF allowed /\ day = today
                   THEN [admitted EXCEPT ![telegram_id] = @ + 1]
                   ELSE admitted
    /\ denied' = IF allowed THEN denied ELSE [denied EXCEPT ![telegram_id] = TRUE]

\* usage.py 62-89 on the User the session holds: either the coroutine is
\* suspended in session.commit(), or it returns False at once.
Decide(p, telegram_id, user, created) ==
    LET d == TrackUsage(user, today, telegram_id, settings.DAILY_FREE_LIMIT)
    IN IF d.commit
       THEN /\ procs' = [procs EXCEPT ![p] =
                           [IdleProc EXCEPT !.pc = "commit", !.tid = telegram_id,
                                            !.day = today, !.loaded = user,
                                            !.new = d.user, !.allowed = d.allowed,
                                            !.handler = "handle_text"]]
            /\ UNCHANGED <<ret, admitted, denied>>
       ELSE /\ procs' = [procs EXCEPT ![p] = IdleProc]
            /\ Return(p, telegram_id, created, d.allowed, today)

\* usage.py 27-38: the SELECT of get_or_create_user completes.  With a row
\* the call goes on to the decision; without one it builds the new User and
\* is suspended in the commit of the INSERT.
Select(p, telegram_id) ==
    /\ procs[p].pc = "idle"
    /\ CanCount(telegram_id, MaxRaceRequests)
    /\ IF HasUser(users, telegram_id)
       THEN Decide(p, telegram_id, UserOf(users, telegram_id), FALSE)
       ELSE /\ procs' = [procs EXCEPT ![p] =
                           [IdleProc EXCEPT !.pc = "insert", !.tid = telegram_id,
                                            !.day = today,
                                            !.handler = "handle_text"]]
            /\ UNCHANGED <<ret, admitted, denied>>
    /\ UNCHANGED <<today, settings, fsm, users, profiles, appended, updates>>

\* usage.py 39: the INSERT is committed, or rejected by the unique index on
\* telegram_id; the IntegrityError is not caught and ends the handler.
Insert(p) ==
    /\ procs[p].pc = "insert"
    /\ LET row == NewUser(users, procs[p].tid, procs[p].day)
       IN IF UniqueViolated(users, row)
          THEN /\ procs' = [procs EXCEPT ![p] = IdleProc]
               /\ ret' = [NoRet EXCEPT !.op = "IntegrityError", !.tid = procs[p].tid]
               /\ UNCHANGED users
          ELSE /\ users' = InsertUser(users, row)
               /\ procs' = [procs EXCEPT ![p].pc = "refresh"]
               /\ UNCHANGED ret
    /\ UNCHANGED <<today, settings, fsm, profiles, admitted, denied, appended, updates>>

\* usage.py 40-43, 62-89: session.refresh(user) reads the row back, and the
\* call goes on to the decision.
Refresh(p) ==
    /\ procs[p].pc = "refresh"
    /\ procs[p].handler = "handle_text"
    /\ Decide(p, procs[p].tid, UserOf(users, procs[p].tid), TRUE)
    /\ UNCHANGED <<today, settings, fsm, users, profiles, appended, updates>>

\* usage.py 68 / 79 / 85: the UPDATE is committed and the call returns True.
Commit(p) ==
    /\ procs[p].pc = "commit"
    /\ users' = UpdateUser(users, procs[p].loaded, procs[p].new)
    /\ procs' = [procs EXCEPT ![p] = IdleProc]
    /\ Return(p, procs[p].tid, FALSE, procs[p].allowed, procs[p].day)
    /\ UNCHANGED <<today, settings, fsm, profiles, appended, updates>>

(***************************************************************************)
(* cmd_start (user.py 134-135): get_or_create_user alone, in its own       *)
(* session, split at the same awaits.                                      *)
(***************************************************************************)
\* usage.py 27-38: the SELECT completes.  With a row the handler has its
\* user; without one it builds the new User and is suspended in the commit
\* of the INSERT (the step Insert).
StartSelect(p, telegram_id) ==
    /\ procs[p].pc = "idle"
    /\ IF HasUser(users, telegram_id)
       THEN /\ ret' = [NoRet EXCEPT !.op = "cmd_start", !.tid = telegram_id]
            /\ UNCHANGED procs
       ELSE /\ procs' = [procs EXCEPT ![p] =
                           [IdleProc EXCEPT !.pc = "insert", !.tid = telegram_id,
                                            !.day = today,
                                            !.handler = "cmd_start"]]
            /\ UNCHANGED ret
    /\ UNCHANGED <<today, settings, fsm, users, profiles, admitted, denied, appended, updates>>

\* usage.py 40-43: session.refresh(user) reads the row back and
\* get_or_create_user returns it.
StartRefresh(p) ==
    /\ procs[p].pc = "refresh"
    /\ procs[p].handler = "cmd_start"
    /\ procs' = [procs EXCEPT ![p] = IdleProc]
    /\ ret' = [NoRet EXCEPT !.op = "cmd_start", !.tid = procs[p].tid,
                            !.created = TRUE]
    /\ UNCHANGED <<today, settings, fsm, users, profiles, admitted, denied, appended, updates>>

(***************************************************************************)
(* The writers of a profile's history as the event loop runs them: the     *)
(* SELECT of the profile and the commit of the change are separate awaits. *)
(***************************************************************************)
\* handle_text, user.py 577-583: the reply has arrived; the profile is read
\* by id and add_to_context changes the session's object.
SaveSelect(p, profile_id, topic) ==
    /\ procs[p].pc = "idle"
    /\ updates < MaxUpdates
    /\ HasProfile(profiles, profile_id)
    /\ get_context(ProfileOf(profiles, profile_id)).type = "list"
    /\ LET profile == ProfileOf(profiles, profile_id)
       IN procs' = [procs EXCEPT ![p] =
                       [IdleProc EXCEPT !.pc = "save_commit",
                                        !.profile = profile,
                                        !.changed = add_to_context(profile, topic, Reply(topic)),
                                        !.topic = topic]]
    /\ updates' = updates + 1
    /\ UNCHANGED <<today, settings, fsm, users, profiles, ret, admitted, denied, appended>>

\* handle_text, user.py 584: the changed history is committed.
SaveCommit(p) ==
    /\ procs[p].pc = "save_commit"
    /\ profiles' = UpdateProfile(profiles, procs[p].profile, procs[p].changed)
    /\ appended' = [appended EXCEPT ![procs[p].profile.id] =
                        Append(@, Exchange(procs[p].topic))]
    /\ procs' = [procs EXCEPT ![p] = IdleProc]
    /\ ret' = [NoRet EXCEPT !.op = "add_to_context", !.tid = procs[p].profile.id]
    /\ UNCHANGED <<today, settings, fsm, users, admitted, denied, updates>>

\* cmd_clear, user.py 172-176: the user row is read; without an active
\* profile the handler answers and returns.
ClearUser(p, telegram_id) ==
    /\ procs[p].pc = "idle"
    /\ HasUser(users, telegram_id)
    /\ LET user == UserOf(users, telegram_id)
       IN IF user.active_profile_id = None
          THEN /\ ret' = [NoRet EXCEPT !.op = "clear_context", !.tid = telegram_id]
               /\ UNCHANGED procs
          ELSE /\ procs' = [procs EXCEPT ![p] =
                              [IdleProc EXCEPT !.pc = "clear_select",
                                               !.tid = telegram_id,
                                               !.loaded = user]]
               /\ UNCHANGED ret
    /\ UNCHANGED <<today, settings, fsm, users, profiles, admitted, denied, appended, updates>>

\* cmd_clear, user.py 177-183: the active profile is read and clear_context
\* changes the session's object; a profile that is gone ends the handler.
ClearSelect(p) ==
    /\ procs[p].pc = "clear_select"
    /\ IF HasProfile(profiles, procs[p].loaded.active_profile_id)
       THEN LET profile == ProfileOf(profiles, procs[p].loaded.active_profile_id)
            IN /\ procs' = [procs EXCEPT ![p].pc = "clear_commit",
                                         ![p].profile = profile,
                                         ![p].changed = clear_context(profile)]
               /\ UNCHANGED ret
       ELSE /\ procs' = [procs EXCEPT ![p] = IdleProc]
            /\ ret' = [NoRet EXCEPT !.op = "clear_context", !.tid = procs[p].tid]
    /\ UNCHANGED <<today, settings, fsm, users, profiles, admitted, denied, appended, updates>>

\* cmd_clear, user.py 184: the emptied history is committed.
ClearCommit(p) ==
    /\ procs[p].pc = "clear_commit"
    /\ profiles' = UpdateProfile(profiles, procs[p].profile, procs[p].changed)
    /\ appended' = [appended EXCEPT ![procs[p].profile.id] = <<>>]
    /\ procs' = [procs EXCEPT ![p] = IdleProc]
    /\ ret' = [NoRet EXCEPT !.op = "clear_context", !.tid = procs[p].tid]
    /\ UNCHANGED <<today, settings, fsm, users, admitted, denied, updates>>

(***************************************************************************)
(* handle_text (user.py 504-593) as the event loop runs it.  The quota     *)
(* check of a request is one step; the request then gives way at the load  *)
(* of the profile, at the call of generate_thread, at the SELECT and at    *)
(* the commit of the save.                                                 *)
(***************************************************************************)
\* What generate_thread does with a request: it returns a text, returns an
\* empty text, or raises.
Outcomes == {"text", "empty", "raised"}

\* A slip of handle_text: the `return` after the denial message is missing.
AfterCheck_NoReturn(allowed) == "load"

\* user.py 515-521: a denied request answers and returns.
AfterCheck(allowed) == IF allowed THEN "load" ELSE "idle"

\* A slip of handle_text: the exchange is saved whatever generate_thread did.
AfterReply_SaveAlways(outcome, profile_id) ==
    IF profile_id # None THEN "save" ELSE "idle"

\* user.py 559-568, 577: after an exception or an empty text the handler
\* answers and returns; a text is saved when a profile was loaded.
AfterReply(outcome, profile_id) ==
    IF outcome = "text" /\ profile_id # None THEN "save" ELSE "idle"

\* What a finished text request leaves behind.
TextRet(telegram_id, allowed, reply) ==
    [NoRet EXCEPT !.op = "handle_text", !.tid = telegram_id,
                  !.allowed = allowed, !.reply = reply]

\* user.py 511-521: check_and_track_usage in its own session.
TextCheck(p, telegram_id, topic) ==
    /\ procs[p].pc = "idle"
    /\ updates < MaxUpdates
    /\ LET tbl == GetOrCreateUser(users, telegram_id, today)
           user == UserOf(tbl, telegram_id)
           d == TrackUsage(user, today, telegram_id, settings.DAILY_FREE_LIMIT)
           busy == \E q \in Procs : q # p /\ procs[q].tid = telegram_id
           mine == [IdleProc EXCEPT !.pc = AfterCheck(d.allowed),
                                    !.tid = telegram_id, !.day = today,
                                    !.loaded = user, !.new = d.user,
                                    !.allowed = d.allowed, !.topic = topic,
                                    !.handler = "handle_text",
                                    !.overlap = busy]
       IN /\ users' = IF d.commit THEN UpdateUser(tbl, user, d.user) ELSE tbl
          /\ procs' = [q \in Procs |->
                          IF q = p
                          THEN IF mine.pc = "idle" THEN IdleProc ELSE mine
                          ELSE IF procs[q].tid = telegram_id
                          THEN [procs[q] EXCEPT !.overlap = TRUE]
                          ELSE procs[q]]
          /\ ret' = IF mine.pc = "idle"
                    THEN TextRet(telegram_id, d.allowed, "none")
                    ELSE ret
          /\ admitted' = IF d.allowed
                         THEN [admitted EXCEPT ![telegram_id] = @ + 1]
                         ELSE admitted
          /\ denied' = IF d.allowed
                       THEN denied
                       ELSE [denied EXCEPT ![telegram_id] = TRUE]
    /\ updates' = updates + 1
    /\ UNCHANGED <<today, settings, fsm, profiles, appended>>

\* A slip of handle_text: the `return` of the branch without an active
\* profile (user.py 531-537) is missing and the request goes on to the
\* model call with the default prompt.
TextLoad_NoActiveServed(p) ==
    /\ procs[p].pc = "load"
    /\ LET user == UserOf(users, procs[p].tid)
       IN procs' = [procs EXCEPT ![p].pc = "generate",
                                 ![p].profile =
                                     IF HasProfile(profiles, user.active_profile_id)
                                     THEN ProfileOf(profiles, user.active_profile_id)
                                     ELSE NoProfile]
    /\ UNCHANGED <<today, settings, fsm, users, profiles, ret, admitted, denied, appended, updates>>

\* user.py 528-548: the user and its active profile are read; without an
\* active profile the handler answers and returns.
TextLoad(p) ==
    /\ procs[p].pc = "load"
    /\ LET user == UserOf(users, procs[p].tid)
       IN IF user.active_profile_id = None
          THEN /\ procs' = [procs EXCEPT ![p] = IdleProc]
               /\ ret' = TextRet(procs[p].tid, procs[p].allowed, "none")
          ELSE /\ procs' = [procs EXCEPT ![p].pc = "generate",
                                         ![p].profile =
                                             IF HasProfile(profiles, user.active_profile_id)
                                             THEN ProfileOf(profiles, user.active_profile_id)
                                             ELSE NoProfile]
               /\ UNCHANGED ret
    /\ UNCHANGED <<today, settings, fsm, users, profiles, admitted, denied, appended, updates>>

\* user.py 555-577: generate_thread is called and returns or raises.
TextGenerate(p, outcome) ==
    /\ procs[p].pc = "generate"
    /\ LET pc == AfterReply(outcome, procs[p].profile.id)
       IN IF pc = "idle"
          THEN /\ procs' = [procs EXCEPT ![p] = IdleProc]
               /\ ret' = TextRet(procs[p].tid, procs[p].allowed, outcome)
          ELSE /\ procs' = [procs EXCEPT ![p].pc = pc, ![p].reply = outcome]
               /\ UNCHANGED ret
    /\ UNCHANGED <<today, settings, fsm, users, profiles, admitted, denied, appended, updates>>

\* user.py 578-583: the profile is read again by id and add_to_context
\* changes the session's object; a profile that is gone ends the handler.
TextSave(p) ==
    /\ procs[p].pc = "save"
    /\ IF HasProfile(profiles, procs[p].profile.id)
       THEN LET profile == ProfileOf(profiles, procs[p].profile.id)
            IN /\ procs' = [procs EXCEPT
                              ![p].pc = "save_commit",
                              ![p].profile = profile,
                              ![p].changed = add_to_context(profile, procs[p].topic,
                                                            Reply(procs[p].topic))]
               /\ UNCHANGED ret
       ELSE /\ procs' = [procs EXCEPT ![p] = IdleProc]
            /\ ret' = TextRet(procs[p].tid, procs[p].allowed, procs[p].reply)
    /\ UNCHANGED <<today, settings, fsm, users, profiles, admitted, denied, appended, updates>>

(***************************************************************************)
(* The chat-slot handlers of handlers/user.py as the event loop runs them. *)
(* A handler that writes is split at its commit; the state filter of a     *)
(* dialog message is tested when its handler starts.                       *)
(***************************************************************************)
\* select(func.count()).where(ThreadsProfile.user_id == user.id)
CountProfiles(tbl, user_id) == Cardinality({r \in tbl : r.user_id = user_id})

\* A handler of the identity has started.
Handled == updates' = updates + 1

\* cb_create_chat (user.py 253-280): with fewer than MAX_CHATS slots the
\* dialog is opened, otherwise the callback is answered with the refusal.
cb_create_chat(telegram_id) ==
    /\ updates < MaxChatOps
    /\ HasUser(users, telegram_id)
    /\ LET count == CountProfiles(profiles, UserOf(users, telegram_id).id)
       IN fsm' = IF count >= MAX_CHATS
                 THEN fsm
                 ELSE [fsm EXCEPT ![telegram_id] = "waiting_name"]
    /\ ret' = [NoRet EXCEPT !.op = "cb_create_chat", !.tid = telegram_id]
    /\ Handled
    /\ UNCHANGED <<today, settings, users, profiles, procs, admitted, denied, appended>>

\* fsm_chat_name (user.py 286-307): a name is taken and the style is asked for.
fsm_chat_name(telegram_id) ==
    /\ updates < MaxChatOps
    /\ fsm[telegram_id] = "waiting_name"
    /\ fsm' = [fsm EXCEPT ![telegram_id] = "waiting_style"]
    /\ ret' = [NoRet EXCEPT !.op = "fsm_chat_name", !.tid = telegram_id]
    /\ Handled
    /\ UNCHANGED <<today, settings, users, profiles, procs, admitted, denied, appended>>

\* fsm_chat_style (user.py 313-325): the message passes the filter
\* ChatCreation.waiting_style and the user row is read.
StyleBegin(p, telegram_id) ==
    /\ procs[p].pc = "idle"
    /\ updates < MaxChatOps
    /\ fsm[telegram_id] = "waiting_style"
    /\ HasUser(users, telegram_id)
    /\ procs' = [procs EXCEPT ![p] =
                    [IdleProc EXCEPT !.pc = "style_commit", !.tid = telegram_id,
                                     !.loaded = UserOf(users, telegram_id),
                                     !.handler = "fsm_chat_style"]]
    /\ Handled
    /\ UNCHANGED <<today, settings, fsm, users, profiles, ret, admitted, denied, appended>>

\* fsm_chat_style (user.py 327-336): the new slot is inserted, made the
\* active one, and both are committed.
StyleCommit(p) ==
    /\ procs[p].pc = "style_commit"
    /\ LET profile == NewProfile(profiles, procs[p].loaded.id, 1)
       IN /\ profiles' = profiles \cup {profile}
          /\ users' = UpdateUser(users, procs[p].loaded,
                                 [procs[p].loaded EXCEPT !.active_profile_id = profile.id])
    /\ procs' = [procs EXCEPT ![p].pc = "style_clear"]
    /\ UNCHANGED <<today, settings, fsm, ret, admitted, denied, appended, updates>>

\* fsm_chat_style (user.py 338): state.clear() ends the dialog.
StyleClear(p) ==
    /\ procs[p].pc = "style_clear"
    /\ fsm' = [fsm EXCEPT ![procs[p].tid] = "none"]
    /\ procs' = [procs EXCEPT ![p] = IdleProc]
    /\ ret' = [NoRet EXCEPT !.op = "fsm_chat_style", !.tid = procs[p].tid]
    /\ UNCHANGED <<today, settings, users, profiles, admitted, denied, appended, updates>>

\* The style text a user sends to fsm_edit_style (user.py 464); the slots of
\* the model are created with the style text 1.
NewStyle == 2

\* cb_edit_style (user.py 431-456): the user and its active slot are read;
\* when both exist the dialog waits for the new style.
cb_edit_style(telegram_id) ==
    /\ ~UniqueViolated(users, NewUser(users, telegram_id, today))
          \/ HasUser(users, telegram_id)
    /\ users' = GetOrCreateUser(users, telegram_id, today)
    /\ LET user == UserOf(users', telegram_id)
       IN fsm' = IF user.active_profile_id # None
                    /\ HasProfile(profiles, user.active_profile_id)
                 THEN [fsm EXCEPT ![telegram_id] = "waiting_new_style"]
                 ELSE fsm
    /\ ret' = [NoRet EXCEPT !.op = "cb_edit_style", !.tid = telegram_id,
                            !.created = ~HasUser(users, telegram_id)]
    /\ UNCHANGED <<today, settings, profiles, procs, admitted, denied, appended, updates>>

\* fsm_edit_style (user.py 462-487): the message passes the filter
\* EditStyle.waiting_new_style; the user and, by the active reference alone,
\* the profile are read; the session's object gets the new style and the
\* empty history.  Without an active slot or without its row the dialog
\* ends.
EditBegin(p, telegram_id) ==
    /\ procs[p].pc = "idle"
    /\ updates < MaxUpdates
    /\ fsm[telegram_id] = "waiting_new_style"
    /\ HasUser(users, telegram_id)
    /\ LET user == UserOf(users, telegram_id)
       IN IF user.active_profile_id # None
             /\ HasProfile(profiles, user.active_profile_id)
          THEN LET profile == ProfileOf(profiles, user.active_profile_id)
               IN /\ procs' = [procs EXCEPT ![p] =
                                 [IdleProc EXCEPT
                                     !.pc = "edit_commit",
                                     !.tid = telegram_id,
                                     !.loaded = user,
                                     !.profile = profile,
                                     !.changed = clear_context(
                                         [profile EXCEPT !.system_prompt = NewStyle]),
                                     !.handler = "fsm_edit_style"]]
                  /\ UNCHANGED <<fsm, ret>>
          ELSE /\ fsm' = [fsm EXCEPT ![telegram_id] = "none"]
               /\ ret' = [NoRet EXCEPT !.op = "fsm_edit_style", !.tid = telegram_id]
               /\ UNCHANGED procs
    /\ updates' = updates + 1
    /\ UNCHANGED <<today, settings, users, profiles, admitted, denied, appended>>

\* fsm_edit_style (user.py 488): the commit of the new style and the
\* emptied history.
EditCommit(p) ==
    /\ procs[p].pc = "edit_commit"
    /\ profiles' = UpdateProfile(profiles, procs[p].profile, procs[p].changed)
    /\ appended' = [appended EXCEPT ![procs[p].profile.id] = <<>>]
    /\ procs' = [procs EXCEPT ![p].pc = "edit_clear"]
    /\ UNCHANGED <<today, settings, fsm, users, ret, admitted, denied, updates>>

\* fsm_edit_style (user.py 491): state.clear() ends the dialog.
EditClear(p) ==
    /\ procs[p].pc = "edit_clear"
    /\ fsm' = [fsm EXCEPT ![procs[p].tid] = "none"]
    /\ procs' = [procs EXCEPT ![p] = IdleProc]
    /\ ret' = [NoRet EXCEPT !.op = "fsm_edit_style", !.tid = procs[p].tid]
    /\ UNCHANGED <<today, settings, users, profiles, admitted, denied, appended, updates>>

\* cb_select_chat (user.py 221-237): the dialog state is cleared, the user
\* and the slot of the button are read (the slot by id and owner); a slot
\* that is not found ends the handler.
SelectBegin(p, telegram_id, profile_id) ==
    /\ procs[p].pc = "idle"
    /\ updates < MaxChatOps
    /\ HasUser(users, telegram_id)
    /\ fsm' = [fsm EXCEPT ![telegram_id] = "none"]
    /\ LET user == UserOf(users, telegram_id)
           found == {r \in profiles : r.id = profile_id /\ r.user_id = user.id}
       IN IF found = {}
          THEN /\ ret' = [NoRet EXCEPT !.op = "cb_select_chat", !.tid = telegram_id]
               /\ UNCHANGED procs
          ELSE /\ procs' = [procs EXCEPT ![p] =
                              [IdleProc EXCEPT !.pc = "select_commit",
                                               !.tid = telegram_id,
                                               !.loaded = user,
                                               !.new = [user EXCEPT
                                                   !.active_profile_id = profile_id],
                                               !.handler = "cb_select_chat"]]
               /\ UNCHANGED ret
    /\ Handled
    /\ UNCHANGED <<today, settings, users, profiles, admitted, denied, appended>>

\* cb_select_chat (user.py 238): the new active reference is committed.
SelectCommit(p) ==
    /\ procs[p].pc = "select_commit"
    /\ users' = UpdateUser(users, procs[p].loaded, procs[p].new)
    /\ procs' = [procs EXCEPT ![p] = IdleProc]
    /\ ret' = [NoRet EXCEPT !.op = "cb_select_chat", !.tid = procs[p].tid,
                            !.allowed = TRUE]
    /\ UNCHANGED <<today, settings, fsm, profiles, admitted, denied, appended, updates>>

\* cb_delete_chat (user.py 396-415): the user and its active slot are read
\* (the slot by id and owner); without one the handler ends.
DeleteBegin(p, telegram_id) ==
    /\ procs[p].pc = "idle"
    /\ updates < MaxChatOps
    /\ HasUser(users, telegram_id)
    /\ LET user == UserOf(users, telegram_id)
           found == {r \in profiles : r.id = user.active_profile_id
                                        /\ r.user_id = user.id}
       IN IF user.active_profile_id = None \/ found = {}
          THEN /\ ret' = [NoRet EXCEPT !.op = "cb_delete_chat", !.tid = telegram_id]
               /\ UNCHANGED procs
          ELSE /\ procs' = [procs EXCEPT ![p] =
                              [IdleProc EXCEPT !.pc = "delete_commit",
                                               !.tid = telegram_id,
                                               !.loaded = user,
                                               !.new = [user EXCEPT
                                                   !.active_profile_id = None],
                                               !.profile = CHOOSE r \in found : TRUE,
                                               !.handler = "cb_delete_chat"]]
               /\ UNCHANGED ret
    /\ Handled
    /\ UNCHANGED <<today, settings, fsm, users, profiles, admitted, denied, appended>>

\* cb_delete_chat (user.py 416): UPDATE users SET active_profile_id = NULL
\* and DELETE FROM threads_profiles WHERE id = <pk> are committed.
DeleteCommit(p) ==
    /\ procs[p].pc = "delete_commit"
    /\ users' = UpdateUser(users, procs[p].loaded, procs[p].new)
    /\ profiles' = {r \in profiles : r.id # procs[p].profile.id}
    /\ procs' = [procs EXCEPT ![p] = IdleProc]
    /\ ret' = [NoRet EXCEPT !.op = "cb_delete_chat", !.tid = procs[p].tid,
                            !.allowed = TRUE]
    /\ UNCHANGED <<today, settings, fsm, admitted, denied, appended, updates>>

(***************************************************************************)
(* The clock.                                                              *)
(***************************************************************************)
\* Midnight: datetime.date.today() moves to the next date.
Tick ==
    /\ today < MaxDay
    /\ today' = today + 1
    /\ admitted' = [u \in Ids |-> 0]
    /\ UNCHANGED <<settings, fsm, users, profiles, procs, ret, denied, appended, updates>>

(***************************************************************************)
(* Spec: calls run one at a time.                                          *)
(***************************************************************************)
\* The state after init_db() on a new database, under the given settings.
Start(limits) ==
    /\ today = 0
    /\ settings \in [DAILY_FREE_LIMIT : limits]
    /\ users = {}
    /\ profiles = {}
    /\ procs = [p \in Procs |-> IdleProc]
    /\ ret = NoRet
    /\ admitted = [u \in Ids |-> 0]
    /\ denied = [u \in Ids |-> FALSE]
    /\ appended = <<>>
    /\ updates = 0
    /\ fsm = [u \in Ids |-> "none"]

Init == Start(LimitValues)

Next ==
    \/ \E u \in Ids : check_and_track_usage(u)
    \/ \E u \in Ids : get_remaining_requests(u)
    \/ \E s \in Ids, t \in Ids : cmd_admin_promote(s, t)
    \/ Tick

Spec == Init /\ [][Next]_vars

(***************************************************************************)
(* SpecFault: calls run one at a time, and a commit may raise.             *)
(***************************************************************************)
NextFault ==
    \/ \E u \in Ids : check_and_track_usage(u)
    \/ \E u \in Ids, pt \in CommitPoints : check_and_track_usage_fails(u, pt)
    \/ \E s \in Ids, t \in Ids : cmd_admin_promote(s, t)
    \/ Tick

SpecFault == Init /\ [][NextFault]_vars

(***************************************************************************)
(* SpecRace: the calls of several handlers overlap.                        *)
(***************************************************************************)
NextRace ==
    \/ \E p \in Procs, u \in Ids : Select(p, u)
    \/ \E p \in Procs : Insert(p)
    \/ \E p \in Procs : Refresh(p)
    \/ \E p \in Procs : Commit(p)
    \/ Tick

InitRace == Start(RaceLimitValues)

(***************************************************************************)
(* SpecCtx: the context window of one chat slot, requests one at a time.   *)
(***************************************************************************)
\* User 2 has created its first chat slot, with the style text 1.
InitCtx ==
    /\ today = 0
    /\ settings = [DAILY_FREE_LIMIT |-> DAILY_FREE_LIMIT]
    /\ LET c == ChatCreated({}, {}, 2, 1, 0)
       IN users = c.users /\ profiles = c.profiles
    /\ procs = [p \in Procs |-> IdleProc]
    /\ ret = NoRet
    /\ admitted = [u \in Ids |-> 0]
    /\ denied = [u \in Ids |-> FALSE]
    /\ appended = << <<>> >>
    /\ updates = 0
    /\ fsm = [u \in Ids |-> "none"]

NextCtx ==
    \/ \E r \in profiles, t \in Texts : handle_text_save(r.id, t, Reply(t))
    \/ \E r \in users : cmd_clear(r.telegram_id)

SpecCtx == InitCtx /\ [][NextCtx]_vars

(***************************************************************************)
(* SpecCtxRace: the writers of one chat slot's history overlap.            *)
(***************************************************************************)
\* The number of exchanges the history holds when the overlapping requests
\* begin: none, one less than the window, the full window.
PrefillValues == {0, MAX_CONTEXT_MESSAGES - 1, MAX_CONTEXT_MESSAGES}

\* The profile after k requests with the text 1 were served one at a time.
RECURSIVE Filled(_, _)
Filled(profile, k) ==
    IF k = 0
    THEN profile
    ELSE add_to_context(Filled(profile, k - 1), 1, Reply(1))

\* User 2 has created its first chat slot and has been served k requests.
InitCtxRace ==
    /\ today = 0
    /\ settings = [DAILY_FREE_LIMIT |-> DAILY_FREE_LIMIT]
    /\ \E k \in PrefillValues :
          LET c == ChatCreated({}, {}, 2, 1, 0)
          IN /\ users = c.users
             /\ profiles = {Filled(r, k) : r \in c.profiles}
             /\ appended = << [i \in 1..k |-> Exchange(1)] >>
    /\ procs = [p \in Procs |-> IdleProc]
    /\ ret = NoRet
    /\ admitted = [u \in Ids |-> 0]
    /\ denied = [u \in Ids |-> FALSE]
    /\ updates = 0
    /\ fsm = [u \in Ids |-> "none"]

NextCtxRace ==
    \/ \E p \in Procs, r \in profiles, t \in Texts : SaveSelect(p, r.id, t)
    \/ \E p \in Procs : SaveCommit(p)
    \/ \E p \in Procs, r \in users : ClearUser(p, r.telegram_id)
    \/ \E p \in Procs : ClearSelect(p)
    \/ \E p \in Procs : ClearCommit(p)

SpecCtxRace == InitCtxRace /\ [][NextCtxRace]_vars

(***************************************************************************)
(* SpecStored: the context helpers of ThreadsProfile applied to a stored   *)
(* context_json of every kind, well-formed or not.                         *)
(***************************************************************************)
\* The values of the context_json column that are no serialized list: a
\* text that does not parse, the empty text, and a text that parses to a
\* value other than a list (an object, null, a number).
CorruptTexts ==
    {[kind |-> k, items |-> <<>>] : k \in {"malformed", "empty", "object"}}

\* The stored histories the helpers are applied to: 0 to
\* MAX_CONTEXT_MESSAGES exchanges, and the corrupt values.
StoredTexts(profile) ==
    {Filled(profile, k).context_json : k \in 0..MAX_CONTEXT_MESSAGES}
        \cup CorruptTexts

\* User 2 has one chat slot, whose context_json column holds any of the
\* stored texts.
InitStored ==
    /\ today = 0
    /\ settings = [DAILY_FREE_LIMIT |-> DAILY_FREE_LIMIT]
    /\ LET c == ChatCreated({}, {}, 2, 1, 0)
       IN /\ users = c.users
          /\ \E r \in c.profiles : \E text \in StoredTexts(r) :
                profiles = {[r EXCEPT !.context_json = text]}
    /\ procs = [p \in Procs |-> IdleProc]
    /\ ret = NoRet
    /\ admitted = [u \in Ids |-> 0]
    /\ denied = [u \in Ids |-> FALSE]
    /\ appended = << <<>> >>
    /\ updates = 0
    /\ fsm = [u \in Ids |-> "none"]

\* profile.get_context() on the stored row; ret.reply is the type of the
\* value it returned.
ApplyGet(profile_id) ==
    /\ HasProfile(profiles, profile_id)
    /\ ret' = [NoRet EXCEPT !.op = "get_context",
                            !.reply = get_context(ProfileOf(profiles, profile_id)).type]
    /\ UNCHANGED <<today, settings, fsm, users, profiles, procs, admitted, denied, appended, updates>>

\* profile.add_to_context(t, reply) and the commit; ctx.append raises
\* AttributeError when get_context returned a value that is no list.
ApplyAdd(profile_id, t) ==
    /\ updates < MaxUpdates
    /\ HasProfile(profiles, profile_id)
    /\ LET r == ProfileOf(profiles, profile_id)
       IN IF get_context(r).type = "list"
          THEN /\ profiles' = UpdateProfile(profiles, r, add_to_context(r, t, Reply(t)))
               /\ ret' = [NoRet EXCEPT !.op = "add_to_context"]
          ELSE /\ profiles' = profiles
               /\ ret' = [NoRet EXCEPT !.op = "AttributeError"]
    /\ updates' = updates + 1
    /\ UNCHANGED <<today, settings, fsm, users, procs, admitted, denied, appended>>

\* profile.clear_context() and the commit; ret.reply is the kind of the
\* text the call replaced.
ApplyClear(profile_id) ==
    /\ updates < MaxUpdates
    /\ HasProfile(profiles, profile_id)
    /\ LET r == ProfileOf(profiles, profile_id)
       IN profiles' = UpdateProfile(profiles, r, clear_context(r))
    /\ ret' = [NoRet EXCEPT !.op = "clear_context",
                            !.reply = ProfileOf(profiles, profile_id).context_json.kind]
    /\ updates' = updates + 1
    /\ UNCHANGED <<today, settings, fsm, users, procs, admitted, denied, appended>>

NextStored ==
    \/ \E r \in profiles : ApplyGet(r.id)
    \/ \E r \in profiles, t \in Texts : ApplyAdd(r.id, t)
    \/ \E r \in profiles : ApplyClear(r.id)

SpecStored == InitStored /\ [][NextStored]_vars

(***************************************************************************)
(* SpecEdit: the style of a chat slot is edited while text requests to it  *)
(* are being saved.                                                        *)
(***************************************************************************)
NextEdit ==
    \/ \E u \in Ids : cb_edit_style(u)
    \/ \E p \in Procs, u \in Ids : EditBegin(p, u)
    \/ \E p \in Procs : EditCommit(p)
    \/ \E p \in Procs : EditClear(p)
    \/ \E p \in Procs, r \in profiles, t \in Texts : SaveSelect(p, r.id, t)
    \/ \E p \in Procs : SaveCommit(p)

SpecEdit == InitCtxRace /\ [][NextEdit]_vars

(***************************************************************************)
(* SpecText: the text requests of several handlers overlap.                *)
(***************************************************************************)
\* User 2 has created its first chat slot; the limit is a small one.
InitText ==
    /\ today = 0
    /\ settings \in [DAILY_FREE_LIMIT : RaceLimitValues]
    /\ LET c == ChatCreated({}, {}, 2, 1, 0)
       IN users = c.users /\ profiles = c.profiles
    /\ procs = [p \in Procs |-> IdleProc]
    /\ ret = NoRet
    /\ admitted = [u \in Ids |-> 0]
    /\ denied = [u \in Ids |-> FALSE]
    /\ appended = << <<>> >>
    /\ updates = 0
    /\ fsm = [u \in Ids |-> "none"]

\* The text of the next message: the n-th request of a run carries the
\* n-th text, in rotation (the handler branches on no text but the empty
\* one, which it drops at user.py 507-509).
NextTopic == (updates % NumTexts) + 1

NextText ==
    \/ \E p \in Procs, u \in Ids : TextCheck(p, u, NextTopic)
    \/ \E p \in Procs : TextLoad(p)
    \/ \E p \in Procs, o \in Outcomes : TextGenerate(p, o)
    \/ \E p \in Procs : TextSave(p)
    \/ \E p \in Procs : SaveCommit(p)
    \/ Tick

SpecText == InitText /\ [][NextText]_vars

(***************************************************************************)
(* SpecTextAny: overlapping text requests of users with and without a chat *)
(* slot: the run starts with the slot of user 2, or on a new database.     *)
(***************************************************************************)
InitTextAny == InitText \/ InitRace

SpecTextAny == InitTextAny /\ [][NextText]_vars

(***************************************************************************)
(* SpecChats: the chat-slot handlers of the users overlap.                 *)
(***************************************************************************)
\* The chat slots user 2 owns when the handlers begin: none, or one less
\* than MAX_CHATS.
ChatPrefill == {0, MAX_CHATS - 1}

\* The tables after the identity created k chat slots, one dialog at a time.
RECURSIVE ChatsCreated(_, _, _, _)
ChatsCreated(tblU, tblP, telegram_id, k) ==
    IF k = 0
    THEN [users |-> tblU, profiles |-> tblP]
    ELSE LET c == ChatsCreated(tblU, tblP, telegram_id, k - 1)
         IN ChatCreated(c.users, c.profiles, telegram_id, 1, 0)

\* Both identities have sent /start, and user 2 has created its slots.
InitChats ==
    /\ today = 0
    /\ settings = [DAILY_FREE_LIMIT |-> DAILY_FREE_LIMIT]
    /\ fsm = [u \in Ids |-> "none"]
    /\ \E k \in ChatPrefill :
          LET c == ChatsCreated(GetOrCreateUser(GetOrCreateUser({}, 1, 0), 2, 0),
                                {}, 2, k)
          IN users = c.users /\ profiles = c.profiles
    /\ procs = [p \in Procs |-> IdleProc]
    /\ ret = NoRet
    /\ admitted = [u \in Ids |-> 0]
    /\ denied = [u \in Ids |-> FALSE]
    /\ appended = <<>>
    /\ updates = 0

NextChats ==
    \/ \E u \in Ids : cb_create_chat(u)
    \/ \E u \in Ids : fsm_chat_name(u)
    \/ \E p \in Procs, u \in Ids : StyleBegin(p, u)
    \/ \E p \in Procs : StyleCommit(p)
    \/ \E p \in Procs : StyleClear(p)
    \/ \E p \in Procs, u \in Ids, r \in profiles : SelectBegin(p, u, r.id)
    \/ \E p \in Procs : SelectCommit(p)
    \/ \E p \in Procs, u \in Ids : DeleteBegin(p, u)
    \/ \E p \in Procs : DeleteCommit(p)

SpecChats == InitChats /\ [][NextChats]_vars

(***************************************************************************)
(* SpecTextSlots: text requests overlap with the deletion and creation of  *)
(* chat slots.                                                             *)
(***************************************************************************)
\* Both identities have sent /start, and user 2 has created one slot.
InitTextSlots ==
    /\ today = 0
    /\ settings = [DAILY_FREE_LIMIT |-> DAILY_FREE_LIMIT]
    /\ fsm = [u \in Ids |-> "none"]
    /\ LET c == ChatsCreated(GetOrCreateUser(GetOrCreateUser({}, 1, 0), 2, 0),
                             {}, 2, 1)
       IN users = c.users /\ profiles = c.profiles
    /\ procs = [p \in Procs |-> IdleProc]
    /\ ret = NoRet
    /\ admitted = [u \in Ids |-> 0]
    /\ denied = [u \in Ids |-> FALSE]
    /\ appended = [i \in 1..MaxChatOps |-> <<>>]
    /\ updates = 0

NextTextSlots ==
    \/ \E p \in Procs, u \in Ids : TextCheck(p, u, NextTopic)
    \/ \E p \in Procs : TextLoad(p)
    \/ \E p \in Procs, o \in Outcomes : TextGenerate(p, o)
    \/ \E p \in Procs : TextSave(p)
    \/ \E p \in Procs : SaveCommit(p)
    \/ \E u \in Ids : cb_create_chat(u)
    \/ \E u \in Ids : fsm_chat_name(u)
    \/ \E p \in Procs, u \in Ids : StyleBegin(p, u)
    \/ \E p \in Procs : StyleCommit(p)
    \/ \E p \in Procs : StyleClear(p)
    \/ \E p \in Procs, u \in Ids : DeleteBegin(p, u)
    \/ \E p \in Procs : DeleteCommit(p)

SpecTextSlots == InitTextSlots /\ [][NextTextSlots]_vars

SpecRace == InitRace /\ [][NextRace]_vars

(***************************************************************************)
(* SpecFree: the calls of several handlers of the users that are not       *)
(* privileged overlap.                                                     *)
(***************************************************************************)
\* The identities that settings.admin_ids_list does not hold.
FreeIds == Ids \ admin_ids_list

NextFree ==
    \/ \E p \in Procs, u \in FreeIds : Select(p, u)
    \/ \E p \in Procs : Insert(p)
    \/ \E p \in Procs : Refresh(p)
    \/ \E p \in Procs : Commit(p)
    \/ Tick

SpecFree == InitRace /\ [][NextFree]_vars

(***************************************************************************)
(* SpecStart: the first contacts of several handlers overlap.              *)
(***************************************************************************)
NextStart ==
    \/ \E p \in Procs, u \in Ids : StartSelect(p, u)
    \/ \E p \in Procs : Insert(p)
    \/ \E p \in Procs : StartRefresh(p)
    \/ Tick

SpecStart == InitRace /\ [][NextStart]_vars

(***************************************************************************)
(* Claims about calls that do not overlap (Spec).                          *)
(***************************************************************************)
Privileged(u) == u \in admin_ids_list

\* The identity has no pro row (it has no row yet, or a free one).
NotPro(tbl, u) == IF HasUser(tbl, u) THEN ~UserOf(tbl, u).is_pro ELSE TRUE

IsPro(tbl, u) == IF HasUser(tbl, u) THEN UserOf(tbl, u).is_pro ELSE FALSE

\* The identity's row holds a date earlier than the clock's.
Stale(tbl, u) == IF HasUser(tbl, u) THEN UserOf(tbl, u).last_request_date < today ELSE FALSE

\* What the row counts for the clock's date: nothing when its date is earlier.
UsedToday(tbl, u) ==
    IF HasUser(tbl, u) /\ ~Stale(tbl, u) THEN UserOf(tbl, u).requests_today ELSE 0

Stored(tbl, u) == IF HasUser(tbl, u) THEN UserOf(tbl, u).requests_today ELSE 0

Denied(r, u) == r.op = "check_and_track_usage" /\ r.tid = u /\ ~r.allowed

Admitted(r, u) == r.op = "check_and_track_usage" /\ r.tid = u /\ r.allowed

\* C1: a free, non-privileged identity starts every day with used-count 0;
\* a call on that day returns True exactly when fewer than DAILY_FREE_LIMIT
\* calls of the day returned True before it, so the first DAILY_FREE_LIMIT
\* calls return True and every further one returns False, and a denied call
\* leaves requests_today at DAILY_FREE_LIMIT.
C1_FreeTierCap ==
    /\ [](\A u \in Ids :
            (~Privileged(u) /\ NotPro(users, u)) => UsedToday(users, u) = admitted[u])
    /\ [][\A u \in Ids :
            (check_and_track_usage(u) /\ ~Privileged(u) /\ NotPro(users, u)) =>
                /\ ret'.allowed = (admitted[u] < settings.DAILY_FREE_LIMIT)
                /\ ~ret'.allowed =>
                      /\ admitted[u] = settings.DAILY_FREE_LIMIT
                      /\ UserOf(users', u).requests_today = settings.DAILY_FREE_LIMIT
          ]_vars

\* C1 witness: with the default limit, the sixth call of the day was denied
\* after exactly DAILY_FREE_LIMIT admitted ones.
C1_Witness ==
    /\ settings.DAILY_FREE_LIMIT = DAILY_FREE_LIMIT
    /\ Denied(ret, 2)
    /\ NotPro(users, 2)
    /\ admitted[2] = DAILY_FREE_LIMIT
    /\ Stored(users, 2) = DAILY_FREE_LIMIT

IsFreshRow(r, u) ==
    /\ r.telegram_id = u
    /\ ~r.is_pro
    /\ r.requests_today = 0
    /\ r.last_request_date = today
    /\ r.active_profile_id = None

\* C5 (as stated): a call that returns False leaves the persistent store as
\* it was: no field of any row changed and no row created.
C5_DenialNoMutation ==
    [][\A u \in Ids :
        (check_and_track_usage(u) /\ ~ret'.allowed) =>
            (users' = users /\ profiles' = profiles)
      ]_vars

\* C5 (amended): a call that returns False changes no field of any existing
\* row and no profile; the one change it can make is to register the caller's
\* own row, with the default values, when the identity had none.
C5_DenialFrame ==
    [][\A u \in Ids :
        (check_and_track_usage(u) /\ ~ret'.allowed) =>
            /\ profiles' = profiles
            /\ users \subseteq users'
            /\ HasUser(users, u) => users' = users
            /\ \A r \in users' \ users : IsFreshRow(r, u)
            /\ Cardinality(users' \ users) <= 1
      ]_vars

\* C5 witness: a denied call that registered the caller's row (limit 0).
C5_Witness ==
    /\ Denied(ret, 2)
    /\ ret.created
    /\ settings.DAILY_FREE_LIMIT = 0
    /\ HasUser(users, 2)

\* C6: for a free, non-privileged user under a limit of at least 1, a call
\* made when the stored date is earlier than the clock's date returns True
\* (and stores the counter 1), however many calls were denied before.
C6_RearmedDaily ==
    [][\A u \in Ids :
        (/\ check_and_track_usage(u)
         /\ ~Privileged(u) /\ NotPro(users, u)
         /\ Stale(users, u)
         /\ settings.DAILY_FREE_LIMIT >= 1) =>
            /\ ret'.allowed
            /\ UserOf(users', u).requests_today = 1
      ]_vars

\* C6 witness: under the limit 1 a free user that was denied on an earlier
\* day has been admitted on the first call of the new day.
C6_Witness ==
    /\ today > 0
    /\ settings.DAILY_FREE_LIMIT = 1
    /\ denied[2]
    /\ Admitted(ret, 2)
    /\ NotPro(users, 2)
    /\ admitted[2] = 1
    /\ UsedToday(users, 2) = 1

\* C7: every call of a pro, non-privileged user returns True whatever the
\* counter is and raises the day's counter (0 when the stored date is stale)
\* by exactly 1; get_remaining_requests returns (True, -1) for it.
C7_ProUnlimited ==
    [][\A u \in Ids :
        (~Privileged(u) /\ IsPro(users, u)) =>
            /\ check_and_track_usage(u) =>
                 /\ ret'.allowed
                 /\ UserOf(users', u).requests_today = UsedToday(users, u) + 1
                 /\ UserOf(users', u).last_request_date = today
            /\ get_remaining_requests(u) =>
                 (ret'.is_pro /\ ret'.remaining = -1)
      ]_vars

\* C7 witness: a pro user has been admitted beyond the default limit.
C7_Witness ==
    /\ settings.DAILY_FREE_LIMIT = DAILY_FREE_LIMIT
    /\ Admitted(ret, 2)
    /\ IsPro(users, 2)
    /\ UsedToday(users, 2) > DAILY_FREE_LIMIT

Quiescent(u) == \A p \in Procs : procs[p].tid # u

\* C2: for a free, non-privileged user, the calls that return True within
\* one calendar day never number more than DAILY_FREE_LIMIT, however the
\* calls for that identity overlap.
C2_ConcurrentCap ==
    \A u \in Ids :
        (~Privileged(u) /\ NotPro(users, u)) =>
            admitted[u] <= settings.DAILY_FREE_LIMIT

\* C3: once the calls made for a user within one calendar day have all
\* returned, the persisted requests_today has grown by exactly the number of
\* them that returned True.  Stated for the first day, which every counter
\* starts at 0 and no earlier call reaches into.
C3_OneIncrementPerAdmit ==
    \A u \in Ids :
        (today = 0 /\ Quiescent(u)) => Stored(users, u) = admitted[u]

(***************************************************************************)
(* Claims about the context window (SpecCtx).                              *)
(***************************************************************************)
Min(a, b) == IF a <= b THEN a ELSE b

\* The entries of the last k exchanges of a log, oldest first, each exchange
\* as its user entry followed by its assistant entry.
LastExchanges(log, k) ==
    [i \in 1..(2 * k) |->
        LET e == log[Len(log) - k + ((i + 1) \div 2)]
        IN IF i % 2 = 1
           THEN Entry("user", e.user_msg)
           ELSE Entry("assistant", e.assistant_msg)]

\* C9: after n add_to_context calls on an empty history, get_context returns
\* exactly the last min(n, MAX_CONTEXT_MESSAGES) exchanges, each as its user
\* entry followed by its assistant entry, oldest retained exchange first.
C9_LastTenExchanges ==
    \A r \in profiles :
        LET log == appended[r.id]
        IN /\ get_context(r).type = "list"
           /\ get_context(r).items =
                  LastExchanges(log, Min(Len(log), MAX_CONTEXT_MESSAGES))

\* C9 witness: more exchanges than the window holds were appended, with
\* different texts, and the returned history is 2 * MAX_CONTEXT_MESSAGES long.
C9_Witness ==
    \E r \in profiles :
        /\ Len(appended[r.id]) > MAX_CONTEXT_MESSAGES
        /\ appended[r.id][1].user_msg # appended[r.id][2].user_msg
        /\ Len(get_context(r).items) = 2 * MAX_CONTEXT_MESSAGES
        /\ get_context(r).items[1] = Entry("user", appended[r.id][2].user_msg)

\* The sequence has even length and alternates user, assistant, from a user
\* entry on.
Paired(ctx) ==
    /\ Len(ctx) % 2 = 0
    /\ \A i \in 1..Len(ctx) :
           ctx[i].role = IF i % 2 = 1 THEN "user" ELSE "assistant"

\* C10: whatever add_to_context and clear_context writes were committed to a
\* profile, overlapping read-modify-write commits included, get_context
\* returns a list of even length that alternates user-role and
\* assistant-role entries, starting with a user-role entry.
C10_PairingInvariant ==
    \A r \in profiles :
        /\ get_context(r).type = "list"
        /\ Paired(get_context(r).items)

\* C10 witness: overlapping commits happened (the stored history holds fewer
\* exchanges than were committed since it was last empty) and the stored
\* history is not empty.
C10_Witness ==
    \E r \in profiles :
        /\ \A p \in Procs : procs[p].pc = "idle"
        /\ Len(get_context(r).items) > 0
        /\ Len(get_context(r).items) <
               2 * Min(Len(appended[r.id]), MAX_CONTEXT_MESSAGES)

\* C11: the stored history of every profile has at most
\* 2 * MAX_CONTEXT_MESSAGES entries, and an add_to_context on a history of
\* length L leaves one of length min(L + 2, 2 * MAX_CONTEXT_MESSAGES) that is
\* the tail of the old history followed by the two new entries: only entries
\* at the oldest end are discarded.
C11_BoundedFifo ==
    /\ [](\A r \in profiles :
            Len(get_context(r).items) <= 2 * MAX_CONTEXT_MESSAGES)
    /\ [][\A r \in profiles, t \in Texts :
            handle_text_save(r.id, t, Reply(t)) =>
                LET old == get_context(r).items
                    new == get_context(ProfileOf(profiles', r.id)).items
                    all == old \o <<Entry("user", t), Entry("assistant", Reply(t))>>
                    drop == Len(all) - Len(new)
                IN /\ Len(new) = Min(Len(old) + 2, 2 * MAX_CONTEXT_MESSAGES)
                   /\ \A i \in 1..Len(new) : new[i] = all[i + drop]
          ]_vars

\* C11 witness: an add_to_context on a full history has just discarded the
\* oldest exchange.
C11_Witness ==
    /\ ret.op = "add_to_context"
    /\ \E r \in profiles :
          /\ Len(appended[r.id]) = MAX_CONTEXT_MESSAGES + 1
          /\ Len(get_context(r).items) = 2 * MAX_CONTEXT_MESSAGES
          /\ get_context(r).items[2] = Entry("assistant", appended[r.id][2].assistant_msg)

(***************************************************************************)
(* Claims about overlapping first contacts (SpecStart).                    *)
(***************************************************************************)
\* C14: the users table holds at most one row per telegram_id, also after
\* overlapping first contacts by the same identity from several handlers.
C14_OneRowPerIdentity ==
    \A u \in Ids : Cardinality(SelectUser(users, u)) <= 1

\* C14 witness: two handlers overlapped in get_or_create_user for one
\* identity; the row of the first is stored and the INSERT of the second
\* was rejected.
C14_Witness ==
    /\ ret.op = "IntegrityError"
    /\ Cardinality(SelectUser(users, ret.tid)) = 1

\* C15: when two calls of get_or_create_user overlap for an identity that
\* has no row yet, neither call ends in an error: the one whose INSERT is
\* rejected falls back to the lookup and returns the existing row.
C15_RejectedInsertFallsBack ==
    ret.op # "IntegrityError"

(***************************************************************************)
(* Claims about the steps of a text request (SpecText).                    *)
(***************************************************************************)
\* The request is past its quota check and has not finished.
PastCheck(p) == procs[p].pc \in {"load", "generate", "save", "save_commit"}

\* The request is past the call of generate_thread and has not finished.
PastReply(p) == procs[p].pc \in {"save", "save_commit"}

\* C12: within one handle_text request generate_thread is invoked only if
\* check_and_track_usage returned True for it, and the add_to_context write
\* is committed only after generate_thread returned a non-empty reply for
\* it: a denied request ends at once, with no model call and no write; a
\* request whose model call raises or returns an empty text ends with no
\* write; and every change of a profile is the commit of an admitted
\* request that holds a non-empty reply.
C12_RequestOrder ==
    /\ [](\A p \in Procs :
            /\ PastCheck(p) => procs[p].allowed
            /\ PastReply(p) => procs[p].reply = "text")
    /\ [][/\ \A p \in Procs, u \in Ids :
                (TextCheck(p, u, NextTopic) /\ admitted' = admitted) =>
                    /\ procs'[p].pc = "idle"
                    /\ ret' = TextRet(u, FALSE, "none")
                    /\ profiles' = profiles
          /\ \A p \in Procs, o \in Outcomes :
                TextGenerate(p, o) =>
                    /\ procs[p].allowed
                    /\ profiles' = profiles
                    /\ o # "text" => procs'[p].pc = "idle"
          /\ profiles' # profiles =>
                \E p \in Procs :
                    SaveCommit(p) /\ procs[p].allowed /\ procs[p].reply = "text"
         ]_vars

\* C12 witness: a request was denied, and an admitted request whose model
\* call raised has ended; no history holds an entry.
C12_Witness ==
    /\ ret.op = "handle_text"
    /\ ret.allowed
    /\ ret.reply = "raised"
    /\ denied[ret.tid]
    /\ \A p \in Procs : procs[p].pc = "idle"
    /\ \A r \in profiles : get_context(r).items = <<>>

\* The request runs on the day it began, on a row whose date is that day
\* (or for a privileged identity, whose counter is never reset).
SameDay(p) ==
    /\ procs[p].day = today
    /\ Privileged(procs[p].tid) \/ procs[p].loaded.last_request_date = today

\* C13: the increment of an admitted request is committed before
\* generate_thread is invoked and is never undone: while the request waits
\* for the model, and after its model call failed, requests_today is exactly
\* one higher than it was when the request began (same day, no other call
\* of the identity in between), and the step in which generate_thread
\* returns or raises leaves the users table as it is.
C13_AttemptCounts ==
    /\ [](\A p \in Procs :
            (procs[p].pc \in {"load", "generate"} /\ ~procs[p].overlap /\ SameDay(p)) =>
                Stored(users, procs[p].tid) = procs[p].loaded.requests_today + 1)
    /\ [][\A p \in Procs, o \in Outcomes :
            TextGenerate(p, o) =>
                /\ users' = users
                /\ (o # "text" /\ ~procs[p].overlap /\ SameDay(p)) =>
                       Stored(users', procs[p].tid) =
                           procs[p].loaded.requests_today + 1
         ]_vars

\* C13 witness: the second request of user 2 on one day was admitted, its
\* model call raised, and the counter stands at 2.
C13_Witness ==
    /\ ret = TextRet(2, TRUE, "raised")
    /\ admitted[2] = 2
    /\ UsedToday(users, 2) = 2
    /\ \A p \in Procs : procs[p].pc = "idle"
(***************************************************************************)
(* Claims about overlapping text requests on one profile (SpecText).       *)
(***************************************************************************)
\* C18: appends to one profile are applied in completion order without
\* loss: once the text requests that received a reply have all finished,
\* the stored history holds the exchanges they committed, within the window
\* of MAX_CONTEXT_MESSAGES, in the order of their commits.
C18_AppendsInOrderNoLoss ==
    \A r \in profiles :
        (\A p \in Procs : procs[p].pc = "idle") =>
            get_context(r).items =
                LastExchanges(appended[r.id],
                              Min(Len(appended[r.id]), MAX_CONTEXT_MESSAGES))

(***************************************************************************)
(* Claims about a commit that raises (SpecFault).                          *)
(***************************************************************************)
\* C20 (as stated): a call of check_and_track_usage in which a commit fails
\* does not return True and takes effect not at all: the persistent store
\* is as it was before the call.
C20_AllOrNothing ==
    [][\A u \in Ids, pt \in CommitPoints :
        check_and_track_usage_fails(u, pt) =>
            /\ ~ret'.allowed
            /\ users' = users
      ]_vars

\* C20 (amended): a call of check_and_track_usage in which a commit fails
\* does not return True, and leaves every existing row as it was, the
\* caller's requests_today and last_request_date included (never a
\* rolled-over date without its increment, never an increment without its
\* date); the one thing that may persist is the registration of the
\* caller's own row with the default values, which get_or_create_user had
\* committed before the failing commit.
C20_NoPartialUpdate ==
    [][\A u \in Ids, pt \in CommitPoints :
        check_and_track_usage_fails(u, pt) =>
            /\ ~ret'.allowed
            /\ profiles' = profiles
            /\ users \subseteq users'
            /\ (HasUser(users, u) \/ pt = "insert") => users' = users
            /\ \A r \in users' \ users : IsFreshRow(r, u)
            /\ Cardinality(users' \ users) <= 1
      ]_vars

\* C20 witness: on a new day the commit of a call for a user whose counter
\* stood above 0 has raised; the row still holds the earlier date and the
\* earlier counter.
C20_Witness ==
    /\ ret.op = "OperationalError"
    /\ ret.reply = "update"
    /\ ret.tid = 2
    /\ Stale(users, 2)
    /\ Stored(users, 2) > 0

(***************************************************************************)
(* Claims about the chat slots (SpecChats).                                *)
(***************************************************************************)
\* C16: no user owns more than MAX_CHATS profiles, under any interleaving
\* of that user's create_chat callbacks, dialog messages and delete
\* callbacks.
C16_AtMostMaxChats ==
    \A r \in users : CountProfiles(profiles, r.id) <= MAX_CHATS

\* C17: each user's active_profile_id is either empty or the id of an
\* existing profile owned by that user, under any interleaving of the
\* select, create and delete handlers.
C17_ActiveReferenceValid ==
    \A r \in users :
        \/ r.active_profile_id = None
        \/ \E q \in profiles : q.id = r.active_profile_id /\ q.user_id = r.id

\* The rows of the identity: its user row and the profiles it owns.
RowsOf(tblU, tblP, u) ==
    [user |-> SelectUser(tblU, u),
     profiles |-> {q \in tblP : \E r \in SelectUser(tblU, u) : q.user_id = r.id}]

\* C19: operations on different identities are independent: a commit of a
\* handler that runs for user A changes neither the row of another user B
\* nor any profile B owns.
C19_IdentitiesIndependent ==
    [][\A p \in Procs, b \in Ids :
        (/\ b # procs[p].tid
         /\ StyleCommit(p) \/ SelectCommit(p) \/ DeleteCommit(p)) =>
            RowsOf(users', profiles', b) = RowsOf(users, profiles, b)
      ]_vars

(***************************************************************************)
(* Claims about get_remaining_requests (Spec).                             *)
(***************************************************************************)
\* C21: get_remaining_requests returns (True, -1) for a pro user whatever
\* the counter is, and for a non-pro user (False, max(DAILY_FREE_LIMIT -
\* used, 0)), where used is the stored requests_today when the stored date
\* is the current date and 0 when it is earlier; the remaining of a non-pro
\* user lies in 0..DAILY_FREE_LIMIT.
C21_RemainingValue ==
    [][\A u \in Ids :
        get_remaining_requests(u) =>
            IF IsPro(users, u)
            THEN ret'.is_pro /\ ret'.remaining = -1
            ELSE /\ ~ret'.is_pro
                 /\ ret'.remaining =
                        Max(settings.DAILY_FREE_LIMIT - UsedToday(users, u), 0)
                 /\ ret'.remaining \in 0..settings.DAILY_FREE_LIMIT
      ]_vars

\* C21 witness: the status of a free user whose counter, above 0, is of an
\* earlier date reports the whole limit as remaining.
C21_Witness ==
    /\ ret.op = "get_remaining_requests"
    /\ ret.tid = 2
    /\ ~ret.is_pro
    /\ settings.DAILY_FREE_LIMIT = DAILY_FREE_LIMIT
    /\ ret.remaining = DAILY_FREE_LIMIT
    /\ Stale(users, 2)
    /\ Stored(users, 2) > 0

\* C22 (as stated): get_remaining_requests leaves the persistent store as
\* it was, for every pre-state, an identity that has no row yet included.
C22_StatusReadOnly ==
    [][\A u \in Ids :
        get_remaining_requests(u) => (users' = users /\ profiles' = profiles)
      ]_vars

\* C22 (amended): get_remaining_requests changes no existing row (a stale
\* date and its counter stay as stored) and no profile; the one change it
\* can make is to register the caller's own row, with the default values,
\* when the identity had none.
C22_StatusFrame ==
    [][\A u \in Ids :
        get_remaining_requests(u) =>
            /\ profiles' = profiles
            /\ users \subseteq users'
            /\ HasUser(users, u) => users' = users
            /\ \A r \in users' \ users : IsFreshRow(r, u)
            /\ Cardinality(users' \ users) <= 1
      ]_vars

\* C22 witness: a status call on a stale row with a counter above 0 has
\* returned, and the row still holds the earlier date and the counter.
C22_Witness ==
    /\ ret.op = "get_remaining_requests"
    /\ ~ret.created
    /\ Stale(users, ret.tid)
    /\ Stored(users, ret.tid) > 0

\* What get_remaining_requests would report for the identity now.
Remaining(tbl, u) ==
    RemainingRequests(UserOf(GetOrCreateUser(tbl, u, today), u), today,
                      settings.DAILY_FREE_LIMIT).remaining

\* The last operation was get_remaining_requests(u) and it ran on the
\* current date: the row it read bears the current date, which no earlier
\* day's row can.
StatusJustReported(u) ==
    /\ ret.op = "get_remaining_requests"
    /\ ret.tid = u
    /\ HasUser(users, u)
    /\ UserOf(users, u).last_request_date = today

\* C30: for a non-pro, non-privileged user, with calls one at a time:
\* a check_and_track_usage call made right after get_remaining_requests on
\* the same date returns True exactly when the reported remaining was above
\* 0, every call returns True exactly when the status would report
\* remaining > 0 at that moment, and an admitted call lowers the reported
\* remaining by exactly 1.
C30_StatusAgreesWithAdmit ==
    [][\A u \in Ids :
        (check_and_track_usage(u) /\ ~Privileged(u) /\ NotPro(users, u)) =>
            /\ StatusJustReported(u) => ret'.allowed = (ret.remaining > 0)
            /\ ret'.allowed = (Remaining(users, u) > 0)
            /\ ret'.allowed => Remaining(users', u) = Remaining(users, u) - 1
            /\ ~ret'.allowed => Remaining(users', u) = 0
      ]_vars

\* C30 witness: under the default limit the status reported 1 remaining,
\* the call after it was admitted, and the status now would report 0.
C30_Witness ==
    /\ settings.DAILY_FREE_LIMIT = DAILY_FREE_LIMIT
    /\ Admitted(ret, 2)
    /\ NotPro(users, 2)
    /\ Remaining(users, 2) = 0
    /\ admitted[2] = DAILY_FREE_LIMIT

(***************************************************************************)
(* Claims about the context helpers on any stored value (SpecStored).      *)
(***************************************************************************)
\* The stored text is a serialized list of role/text entries.
WellFormed(text) ==
    /\ text.kind = "array"
    /\ \A i \in 1..Len(text.items) :
          text.items[i].role \in {"user", "assistant"}

\* C23: whenever the stored context_json is no well-formed serialized list
\* of entries (it does not parse, is empty, or parses to something that is
\* no list), get_context returns an empty sequence and raises nothing, and
\* add_to_context on that profile does not fail.
C23_CorruptReadsEmpty ==
    /\ \A r \in profiles :
          ~WellFormed(r.context_json) =>
              /\ ~get_context(r).raised
              /\ get_context(r).type = "list"
              /\ get_context(r).items = <<>>
    /\ ret.op # "AttributeError"

\* C24: clear_context followed by get_context returns an empty sequence
\* whatever was stored before (no entry, some, the full window, or a
\* corrupt value), and clearing an already cleared profile changes nothing.
C24_ClearThenGetEmpty ==
    [][\A r \in profiles :
        ApplyClear(r.id) =>
            LET cleared == ProfileOf(profiles', r.id)
            IN /\ cleared = clear_context(r)
               /\ get_context(cleared) =
                      [raised |-> FALSE, type |-> "list", items |-> <<>>]
               /\ clear_context(cleared) = cleared
               /\ UpdateProfile(profiles', cleared, clear_context(cleared))
                      = profiles'
      ]_vars

\* C24 witness: a stored value that parsed to something other than a list
\* was cleared, and the profile now reads as the empty list.
C24_Witness ==
    /\ ret.op = "clear_context"
    /\ ret.reply = "object"
    /\ \A r \in profiles :
          get_context(r) = [raised |-> FALSE, type |-> "list", items |-> <<>>]

(***************************************************************************)
(* Claims about the edit of a style (SpecEdit).                            *)
(***************************************************************************)
\* C25: once fsm_edit_style has committed the new style, no committed state
\* holds the new style together with entries that were stored under the old
\* one: the history of a profile with the new style holds no more exchanges
\* than were committed since the edit.
C25_NewStyleEmptyHistory ==
    \A r \in profiles :
        r.system_prompt = NewStyle =>
            Len(get_context(r).items) <= 2 * Len(appended[r.id])

(***************************************************************************)
(* Claims about overlapping calls of a free user (SpecFree).               *)
(***************************************************************************)
\* C26: for a user that is neither pro nor privileged the persisted
\* requests_today lies in 0..DAILY_FREE_LIMIT in every reachable state,
\* however the check_and_track_usage calls overlap and the date changes.
C26_FreeCounterInRange ==
    \A r \in users :
        (~Privileged(r.telegram_id) /\ ~r.is_pro) =>
            r.requests_today \in 0..settings.DAILY_FREE_LIMIT

\* C26 witness: the counter is at the limit, more calls than the limit were
\* admitted today, and a call that read the counter below the limit is
\* still suspended in its commit.
C26_Witness ==
    /\ settings.DAILY_FREE_LIMIT = MaxRaceLimit
    /\ Stored(users, 2) = settings.DAILY_FREE_LIMIT
    /\ admitted[2] > settings.DAILY_FREE_LIMIT
    /\ \E p \in Procs :
          /\ procs[p].pc = "commit"
          /\ procs[p].tid = 2
          /\ procs[p].loaded.requests_today < settings.DAILY_FREE_LIMIT

\* C28: with a clock that never goes back, a user's persisted
\* last_request_date never decreases and is never later than the clock's
\* date, and a counter accumulated on an earlier date is never stored with
\* a later date: a row that bears today's date counts no more calls than
\* were admitted today.
C28_DateAndCounterAgree ==
    /\ [](\A r \in users :
             /\ r.last_request_date <= today
             /\ r.last_request_date = today =>
                    r.requests_today <= admitted[r.telegram_id])
    /\ [][\A r \in users : \A s \in users' :
             s.telegram_id = r.telegram_id =>
                 s.last_request_date >= r.last_request_date]_vars

(***************************************************************************)
(* Claims about text requests without an active profile (SpecTextAny).     *)
(***************************************************************************)
\* The counter value the request's quota check started from: the stored
\* counter, or 0 when the row of a non-privileged user bore an earlier date.
CountedBefore(p) ==
    IF Privileged(procs[p].tid)
          \/ procs[p].loaded.last_request_date = procs[p].day
    THEN procs[p].loaded.requests_today
    ELSE 0

\* C29: a text request from a user with no active profile is charged but
\* not served: it reaches the load only after the quota check admitted it,
\* the check has raised requests_today by one (no other call of the user in
\* between), and the handler then returns without calling generate_thread
\* and without changing any profile's history.
C29_ChargedNotServed ==
    [][\A p \in Procs :
        (TextLoad(p) /\ UserOf(users, procs[p].tid).active_profile_id = None) =>
            /\ procs[p].allowed
            /\ ~procs[p].overlap =>
                   Stored(users, procs[p].tid) = CountedBefore(p) + 1
            /\ procs'[p].pc = "idle"
            /\ ret' = TextRet(procs[p].tid, TRUE, "none")
            /\ users' = users
            /\ profiles' = profiles
            /\ appended' = appended
      ]_vars

\* C29 witness: the first text of the free user 2, who has no chat slot,
\* was admitted and counted, and the handler has returned with no reply.
C29_Witness ==
    /\ ret = TextRet(2, TRUE, "none")
    /\ HasUser(users, 2)
    /\ UserOf(users, 2).active_profile_id = None
    /\ Stored(users, 2) = 1
    /\ admitted[2] = 1
    /\ profiles = {}
    /\ \A p \in Procs : procs[p].pc = "idle"

(***************************************************************************)
(* Claims about a slot deleted under a text request (SpecTextSlots).       *)
(***************************************************************************)
\* C27: when the active profile of a text request is deleted while the
\* model call is in flight, the reply is appended to no profile: the
\* exchange a request commits never lands in a profile of another user,
\* created in the meantime or not.
C27_ReplyToNoOtherProfile ==
    [][\A p \in Procs :
        (SaveCommit(p) /\ procs[p].handler = "handle_text") =>
            procs[p].profile.user_id = procs[p].loaded.id
      ]_vars

====
